---------------------------- MODULE Spec2Model ----------------------------
(***************************************************************************)
(* Cart-to-order checkout of the storefront client.                        *)
(*                                                                         *)
(* CartPage.handleCheckout is an async function: every `await` is a        *)
(* suspension point, so one run of it is a sequence of steps, one per      *)
(* resumption.  React state (loading, the alert) is changed by setState;   *)
(* the values a handler reads (cartItems, totalPrice, loading) are those   *)
(* of the render that created the handler, so the model keeps the          *)
(* committed state and the rendered view apart, with a Render step         *)
(* between them.                                                           *)
(*                                                                         *)
(* MarketPage.handleAddToCart puts items in the same cart; it has its own  *)
(* specification, SpecMarket.                                              *)
(***************************************************************************)
EXTENDS Integers, Sequences, FiniteSets, TLC

\* ------------------------------------------------------------------ bounds
\* Number of products of the catalogue that can be put in the cart.
MaxProducts == 1
\* Number of times handleCheckout is invoked in one behaviour.
MaxAttempts == 2
\* Number of items the market lists.
MaxItems == 3
\* Number of alerts the market screen shows in one behaviour.
MaxShown == 4

Products == 1..MaxProducts
Attempts == 1..MaxAttempts
Items == 1..MaxItems

VARIABLES
    cartItems,   \* CartContext.cartItems: sequence of product ids, insertion order
    loading,     \* useState(false): the checkout-in-progress flag
    view,        \* what the last render handed to the handlers and the button
    alert,       \* alertVisible / alertTitle / alertMessage / alertIcon / alertButtons
    navLog,      \* routes passed to navigation.navigate by this screen
    started,     \* number of handleCheckout invocations so far
    orders,      \* number of orders the backend has created
    outcome,     \* the terminal state the checkout reached last: Succeeded or Failed(kind)
    att,         \* per invocation of handleCheckout: its position and locals
    marketAlert, \* MarketPage: alertVisible / alertTitle / alertMessage / alertIcon / alertButtons
    added,       \* MarketPage.handleAddToCart: what addToCart(item) returned last
    shown,       \* number of times MarketPage has made its alert visible
    products,    \* MarketPage useState([]): the fetched products, in fetched order
    filteredData,  \* MarketPage useState([]): the list the market displays
    searchQuery, \* MarketPage useState(''): the text of the search box
    sortOption,  \* MarketPage useState('Default'): the selected sort option
    pending,     \* timers of debounce(filterData, 300) not yet fired or cancelled
    firstInstance,  \* debouncedFilter is still the instance the mount render created
    popup        \* ReviewPopup: productId, reviews / loading / error, and its fetches

checkoutVars == <<loading, view, alert, navLog, started, orders, outcome, att>>
listVars == <<products, filteredData, searchQuery, sortOption, pending, firstInstance>>
marketVars == <<marketAlert, added, shown, listVars, popup>>
vars == <<cartItems, checkoutVars, marketVars>>

\* ------------------------------------------------------------- data values
\* A price string "i.fff" (three decimals) or "i.ff" (two decimals, as
\* produced by toFixed(2)).
PriceString(i, f, d) == [int |-> i, frac |-> f, digits |-> d]

\* item.price of product p: "1.101", "2.201", ... (not a whole number of cents)
Price(p) == PriceString(p, 100 * p + 1, 3)

\* parseInt in place of parseFloat: the decimals are dropped.
parseFloat_parseInt(s) == s.int * 1000

\* parseFloat of a price string, in thousandths.
parseFloat(s) == s.int * 1000 + (IF s.digits = 2 THEN s.frac * 10 ELSE s.frac)

\* Number.prototype.toFixed(2) of an amount in thousandths: round to the
\* nearest cent.
toFixed2(m) ==
    LET cents == (m + 5) \div 10
    IN  PriceString(cents \div 100, cents % 100, 2)

RECURSIVE reduceSum(_)
reduceSum(items) ==
    IF items = <<>> THEN 0
    ELSE parseFloat(Price(Head(items))) + reduceSum(Tail(items))

\* const totalPrice = cartItems.reduce(...).toFixed(2)
totalPrice(items) == toFixed2(reduceSum(items))

\* The client secret: null, or the secret the provider issued for the k-th
\* invocation's request (every request gets a secret of its own).
Null == <<>>
Secret(k) == <<"pi_secret", k>>

\* The `error` member of an SDK result: undefined, or a StripeError.
NoError == [code |-> "", message |-> ""]
SdkErrors == { [code |-> "Failed", message |-> "sdk: payment failed"],
               [code |-> "Canceled", message |-> "sdk: the payment has been canceled"] }

\* What an awaited call can do: return a value, or throw (reject).
IntentOutcomes(a) ==
    { [thrown |-> FALSE, secret |-> Secret(a)],
      [thrown |-> FALSE, secret |-> Null],
      [thrown |-> TRUE, secret |-> Null] }

SdkOutcomes ==
    { [thrown |-> FALSE, error |-> e] : e \in {NoError} \cup SdkErrors }
        \cup { [thrown |-> TRUE, error |-> NoError] }

\* createOrder: a response { success, data?, message? }, or a thrown error
\* with or without a message.  data "order" is a created order whose
\* orderItems carry populated products; "orderUnpopulated" is one whose
\* orderItems cannot be walked as line 160-162 does.  message "" is absent.
OrderData == { "none", "order", "orderUnpopulated" }
OrderMessages == { "", "server: order rejected" }
\* The backend created the order: it answered success with the order record.
OrderCreated(r) == ~r.thrown /\ r.success /\ r.data # "none"

OrderOutcomes ==
    { [thrown |-> FALSE, success |-> s, data |-> d, message |-> m] :
        s \in BOOLEAN, d \in OrderData, m \in OrderMessages }
    \cup { [thrown |-> TRUE, success |-> FALSE, data |-> "none", message |-> m] :
             m \in { "", "Network Error" } }

NoAlert ==
    [visible |-> FALSE, title |-> "", message |-> "", icon |-> "",
     onPress |-> "none"]

\* The alerts handleCheckout sets: title, message, icon and the OK button's
\* onPress.
CartEmptyAlert ==
    [visible |-> TRUE, title |-> "Cart Empty",
     message |-> "Your cart is empty. Add items before checkout.",
     icon |-> "cart-outline", onPress |-> "dismiss"]

\* The payment-failure alert's OK button is given the success alert's onPress.
PaymentFailedAlert_clears(error) ==
    [visible |-> TRUE, title |-> "Payment Failed", message |-> error.message,
     icon |-> "cart-outline", onPress |-> "clearCartAndNavigate"]

PaymentFailedAlert(error) ==
    [visible |-> TRUE, title |-> "Payment Failed", message |-> error.message,
     icon |-> "cart-outline", onPress |-> "dismiss"]

OrderPlacedAlert ==
    [visible |-> TRUE, title |-> "Order Placed",
     message |-> "You have successfully purchased the products in your cart. Check your purchase history for details.",
     icon |-> "checkmark-circle", onPress |-> "clearCartAndNavigate"]

\* The failure alert's OK button is given the success alert's onPress.
CheckoutFailedAlert_navigates(errorMessage) ==
    [visible |-> TRUE, title |-> "Checkout Failed",
     message |-> IF errorMessage # "" THEN errorMessage
                 ELSE "An error occurred during checkout.",
     icon |-> "close-circle", onPress |-> "clearCartAndNavigate"]

CheckoutFailedAlert(errorMessage) ==
    [visible |-> TRUE, title |-> "Checkout Failed",
     message |-> IF errorMessage # "" THEN errorMessage
                 ELSE "An error occurred during checkout.",
     icon |-> "close-circle", onPress |-> "dismiss"]

\* MarketPage's alert state as useState initialises it (61-65).
NoMarketAlert ==
    [visible |-> FALSE, title |-> "", message |-> <<>>, icon |-> "",
     buttons |-> <<>>]

\* ReviewPopup as mounted for the first product: useState([]), useState(true),
\* useState(null), and the effect on [productId] has called fetchReviews,
\* which waits for api.getProductReviewsAPI.  last is the outcome of the
\* fetch that completed last; error "" is null.
MountedPopup ==
    [productId |-> 1, reviews |-> <<>>, loading |-> TRUE, error |-> "",
     fetching |-> {1}, last |-> "none"]

\* One invocation of handleCheckout: where it is suspended (pc), the values
\* its closure and locals hold, and the calls it has made so far.  initOk and
\* presentOk record what the SDK answered (no error), whatever the handler
\* then makes of the answer; submitted holds the drafts handed to
\* api.createOrder.
IdleAttempt ==
    [pc |-> "Idle", cartItems |-> <<>>, totalPrice |-> toFixed2(0),
     clientSecret |-> Null, intentCalls |-> <<>>, initCalls |-> <<>>,
     presentCalls |-> 0, initOk |-> FALSE, presentOk |-> FALSE,
     submitted |-> <<>>]

\* When the function returns, or dies of an exception nothing catches, its
\* locals are gone.
Returned == [IdleAttempt EXCEPT !.pc = "Returned"]
Rejected == [IdleAttempt EXCEPT !.pc = "Rejected"]

\* The states the checkout ends in.
NoOutcome == [state |-> "Idle", kind |-> ""]
Succeeded == [state |-> "Succeeded", kind |-> ""]
Failed(kind) == [state |-> "Failed", kind |-> kind]

Init ==
    /\ cartItems = <<>>
    /\ loading = FALSE
    /\ view = [cartItems |-> <<>>, loading |-> FALSE]
    /\ alert = NoAlert
    /\ navLog = {}
    /\ started = 0
    /\ orders = 0
    /\ outcome = NoOutcome
    /\ att = [a \in Attempts |-> IdleAttempt]
    /\ marketAlert = NoMarketAlert
    /\ added = FALSE
    /\ shown = 0
    /\ products = <<>>
    /\ filteredData = <<>>
    /\ searchQuery = ""
    /\ sortOption = "Default"
    /\ pending = {}
    /\ firstInstance = TRUE
    /\ popup = MountedPopup

\* ------------------------------------------------------------- CartContext
Contains(items, id) == \E i \in 1..Len(items) : items[i] = id

\* splice(indexOf(id), 1): an absent id has index -1, which drops the last item.
Without_spliceIndexOf(items, id) ==
    IF Contains(items, id) THEN SelectSeq(items, LAMBDA x : x # id)
    ELSE SubSeq(items, 1, Len(items) - 1)

\* CartStore remove(id): removing an absent id is a no-op
RECURSIVE Without(_, _)
Without(items, id) ==
    IF items = <<>> THEN <<>>
    ELSE IF Head(items) = id THEN Without(Tail(items), id)
    ELSE <<Head(items)>> \o Without(Tail(items), id)

\* The new item is put in front: [item, ...cartItems].
addToCart_prepends(p) ==
    /\ cartItems' = IF Contains(cartItems, p) THEN cartItems ELSE <<p>> \o cartItems
    /\ UNCHANGED <<checkoutVars, marketVars>>

\* CartStore add(item) -> bool: inserts if id not present
addToCart(p) ==
    /\ cartItems' = IF Contains(cartItems, p) THEN cartItems ELSE Append(cartItems, p)
    /\ UNCHANGED <<loading, view, alert, navLog, started, orders, outcome, att, marketVars>>

\* the trash button of a rendered cart line: removeFromCart(item._id)
removeFromCart(p) ==
    /\ Contains(view.cartItems, p)
    /\ cartItems' = Without(cartItems, p)
    /\ UNCHANGED <<loading, view, alert, navLog, started, orders, outcome, att, marketVars>>

\* React commits a render: handlers and the button now see the current state.
Render ==
    /\ view # [cartItems |-> cartItems, loading |-> loading]
    /\ view' = [cartItems |-> cartItems, loading |-> loading]
    /\ UNCHANGED <<cartItems, loading, alert, navLog, started, orders, outcome, att, marketVars>>

\* ---------------------------------------------------------- handleCheckout
\* disabled={loading} on the checkout button
CheckoutDisabled == view.loading

\* The validation is left out.
CartIsEmpty_never(items) == FALSE

\* if (cartItems.length === 0)
CartIsEmpty(items) == Len(items) = 0

\* The null check is left out.
SecretMissing_never(secret) == FALSE

\* if (!clientSecret)
SecretMissing(secret) == secret = Null

\* The init error is not looked at.
InitFailed_never(error) == FALSE

\* if (initError)
InitFailed(error) == error # NoError

\* The result of presentPaymentSheet is ignored.
PaymentFailed_ignored(error) == FALSE

\* A cancellation is let through as if the payment had been made.
PaymentFailed_exceptCanceled(error) ==
    error # NoError /\ error.code # "Canceled"

\* if (paymentError)
PaymentFailed(error) == error # NoError

\* Every response counts as a created order.
OrderAccepted_always(response) == TRUE

\* The success flag is not looked at.
OrderAccepted_dataOnly(response) == response.data # "none"

\* if (response.success && response.data)
OrderAccepted(response) == response.success /\ response.data # "none"

\* createdOrder.orderItems.forEach(... orderItem.product.pdfLink ...) completes
ItemsWalkable(response) == response.data = "order"

\* The draft is sent as unpaid, with the quantity left at 0.
orderData_unpaid(a) ==
    [orderItems |-> [i \in 1..Len(att[a].cartItems) |->
                        [product |-> att[a].cartItems[i],
                         price |-> Price(att[a].cartItems[i]),
                         quantity |-> 0]],
     totalPrice |-> parseFloat(att[a].totalPrice),
     paymentMethod |-> "Card",
     isPaid |-> FALSE,
     paidAt |-> "",
     paymentResult |-> [clientSecret |-> att[a].clientSecret]]

\* The draft carries the secret of the first invocation, kept across attempts.
orderData_firstSecret(a) ==
    [orderItems |-> [i \in 1..Len(att[a].cartItems) |->
                        [product |-> att[a].cartItems[i],
                         price |-> Price(att[a].cartItems[i]),
                         quantity |-> 1]],
     totalPrice |-> parseFloat(att[a].totalPrice),
     paymentMethod |-> "Card",
     isPaid |-> TRUE,
     paidAt |-> "new Date()",
     paymentResult |-> [clientSecret |-> Secret(1)]]

\* The order items are read from the cart as it is now, not from the
\* cartItems the invocation started with.
orderData_currentCart(a) ==
    [orderItems |-> [i \in 1..Len(cartItems) |->
                        [product |-> cartItems[i],
                         price |-> Price(cartItems[i]),
                         quantity |-> 1]],
     totalPrice |-> parseFloat(att[a].totalPrice),
     paymentMethod |-> "Card",
     isPaid |-> TRUE,
     paidAt |-> "new Date()",
     paymentResult |-> [clientSecret |-> att[a].clientSecret]]

\* const orderData = { ... }
orderData(a) ==
    [orderItems |-> [i \in 1..Len(att[a].cartItems) |->
                        [product |-> att[a].cartItems[i],
                         price |-> Price(att[a].cartItems[i]),
                         quantity |-> 1]],
     totalPrice |-> parseFloat(att[a].totalPrice),
     paymentMethod |-> "Card",
     isPaid |-> TRUE,
     paidAt |-> "new Date()",
     paymentResult |-> [clientSecret |-> att[a].clientSecret]]

SetAtt(a, r) == att' = [att EXCEPT ![a] = r]

\* handleCheckout is invoked and runs up to its first await.  The button that
\* invokes it is disabled by the rendered flag alone, and the footer holding
\* the button is drawn only for a cart that was rendered non-empty; the
\* handler validates the cart by itself (lines 91-99), so it is modelled for
\* every snapshot it can be handed.
handleCheckout ==
    /\ started < MaxAttempts
    /\ ~CheckoutDisabled
    /\ LET a == started + 1
           mine == [att[a] EXCEPT !.cartItems = view.cartItems,
                                  !.totalPrice = totalPrice(view.cartItems)]
       IN  /\ started' = a
           /\ IF CartIsEmpty(view.cartItems)
              THEN /\ alert' = CartEmptyAlert
                   /\ loading' = FALSE
                   /\ SetAtt(a, Returned)
                   /\ outcome' = Failed("EmptyCart")
              ELSE /\ loading' = TRUE
                   /\ SetAtt(a, [mine EXCEPT !.pc = "RequestingIntent",
                                             !.intentCalls = <<mine.totalPrice>>])
                   /\ UNCHANGED <<alert, outcome>>
    /\ UNCHANGED <<cartItems, view, navLog, orders, marketVars>>

\* await fetchPaymentIntent(totalPrice) resolves
fetchPaymentIntentResolved(a, r) ==
    /\ att[a].pc = "RequestingIntent"
    /\ IF r.thrown
       THEN /\ SetAtt(a, Rejected)
            /\ UNCHANGED <<loading, outcome>>
       ELSE IF SecretMissing(r.secret)
       THEN /\ loading' = FALSE
            /\ SetAtt(a, Returned)
            /\ outcome' = Failed("IntentUnavailable")
       ELSE /\ SetAtt(a, [att[a] EXCEPT !.pc = "InitializingProcessor",
                                        !.clientSecret = r.secret,
                                        !.initCalls = <<r.secret>>])
            /\ UNCHANGED <<loading, outcome>>
    /\ UNCHANGED <<cartItems, view, alert, navLog, started, orders, marketVars>>

\* await initPaymentSheet({...}) resolves
initPaymentSheetResolved(a, r) ==
    /\ att[a].pc = "InitializingProcessor"
    /\ IF r.thrown
       THEN /\ SetAtt(a, Rejected)
            /\ UNCHANGED <<loading, alert, outcome>>
       ELSE IF InitFailed(r.error)
       THEN /\ alert' = PaymentFailedAlert(r.error)
            /\ loading' = FALSE
            /\ SetAtt(a, Returned)
            /\ outcome' = Failed("ProcessorInitError")
       ELSE /\ SetAtt(a, [att[a] EXCEPT !.pc = "PresentingProcessor",
                                        !.initOk = (r.error = NoError),
                                        !.presentCalls = @ + 1])
            /\ UNCHANGED <<loading, alert, outcome>>
    /\ UNCHANGED <<cartItems, view, navLog, started, orders, marketVars>>

\* await presentPaymentSheet() resolves
presentPaymentSheetResolved(a, r) ==
    /\ att[a].pc = "PresentingProcessor"
    /\ IF r.thrown
       THEN /\ SetAtt(a, Rejected)
            /\ UNCHANGED <<loading, alert, outcome>>
       ELSE IF PaymentFailed(r.error)
       THEN /\ alert' = PaymentFailedAlert(r.error)
            /\ loading' = FALSE
            /\ SetAtt(a, Returned)
            /\ outcome' = Failed("ProcessorPresentError")
       ELSE /\ SetAtt(a, [att[a] EXCEPT !.pc = "PersistingOrder",
                                        !.presentOk = (r.error = NoError),
                                        !.submitted = Append(@, orderData(a))])
            /\ UNCHANGED <<loading, alert, outcome>>
    /\ UNCHANGED <<cartItems, view, navLog, started, orders, marketVars>>

\* await api.createOrder(orderData) resolves; then the try/catch and line 191
createOrderResolved(a, r) ==
    /\ att[a].pc = "PersistingOrder"
    /\ IF r.thrown
       THEN /\ alert' = CheckoutFailedAlert(r.message)
            /\ SetAtt(a, Returned)
            /\ outcome' = Failed("OrderPersistError")
       ELSE IF ~OrderAccepted(r)
       THEN /\ alert' = CheckoutFailedAlert(
                            IF r.message # "" THEN r.message
                            ELSE "Failed to place order.")
            /\ SetAtt(a, Returned)
            /\ outcome' = Failed("OrderPersistError")
       ELSE IF ~ItemsWalkable(r)
       THEN /\ alert' = CheckoutFailedAlert("TypeError: Cannot read property of undefined")
            /\ SetAtt(a, Returned)
            /\ outcome' = Failed("OrderPersistError")
       ELSE /\ alert' = OrderPlacedAlert
            /\ SetAtt(a, Returned)
            /\ outcome' = Succeeded
    /\ loading' = FALSE
    /\ orders' = IF OrderCreated(r) THEN orders + 1 ELSE orders
    /\ UNCHANGED <<cartItems, view, navLog, started, marketVars>>

\* ------------------------------------------------------------- CustomAlert
\* CartStore clear(): empties the collection
clearCart == <<>>

\* The alert's OK button: the onPress handleCheckout stored in alertButtons.
pressAlertButton ==
    /\ alert.visible
    /\ alert' = [alert EXCEPT !.visible = FALSE]
    /\ IF alert.onPress = "clearCartAndNavigate"
       THEN /\ cartItems' = clearCart
            /\ navLog' = navLog \cup {"PurchaseHistory"}
       ELSE UNCHANGED <<cartItems, navLog>>
    /\ UNCHANGED <<loading, view, started, orders, outcome, att, marketVars>>

\* onClose={() => setAlertVisible(false)}
closeAlert ==
    /\ alert.visible
    /\ alert' = [alert EXCEPT !.visible = FALSE]
    /\ UNCHANGED <<cartItems, loading, view, navLog, started, orders, outcome, att, marketVars>>

Next ==
    \/ \E p \in Products : addToCart(p)
    \/ \E p \in Products : removeFromCart(p)
    \/ Render
    \/ handleCheckout
    \/ \E a \in Attempts : \E r \in IntentOutcomes(a) : fetchPaymentIntentResolved(a, r)
    \/ \E a \in Attempts : \E r \in SdkOutcomes : initPaymentSheetResolved(a, r)
    \/ \E a \in Attempts : \E r \in SdkOutcomes : presentPaymentSheetResolved(a, r)
    \/ \E a \in Attempts : \E r \in OrderOutcomes : createOrderResolved(a, r)
    \/ pressAlertButton
    \/ closeAlert

Spec == Init /\ [][Next]_vars


\* -------------------------------------------------------------- MarketPage
\* Every add inserts and reports an insertion, present or not.
addToCartResult_duplicates(items, item) ==
    [cartItems |-> Append(items, item), added |-> TRUE]

\* CartStore add(item) -> bool: inserts if id not present; returns whether
\* insertion occurred
addToCartResult(items, item) ==
    [cartItems |-> IF Contains(items, item) THEN items ELSE Append(items, item),
     added |-> ~Contains(items, item)]

\* The alerts handleAddToCart sets; the message is `${item.name} ...`.
AddedAlert(item) ==
    [visible |-> TRUE, title |-> "Success",
     message |-> <<item, "has been added to your cart.">>,
     icon |-> "cart", buttons |-> <<"OK">>]

\* "Already in the cart" is reported as an error.
AlreadyInCartAlert_error(item) ==
    [visible |-> TRUE, title |-> "Error",
     message |-> <<item, "is already in your cart.">>,
     icon |-> "alert-circle", buttons |-> <<"OK">>]

AlreadyInCartAlert(item) ==
    [visible |-> TRUE, title |-> "Info",
     message |-> <<item, "is already in your cart.">>,
     icon |-> "information-circle", buttons |-> <<"OK">>]

\* the cart button of a product card: handleAddToCart(item)
handleAddToCart(item) ==
    /\ shown < MaxShown
    /\ LET r == addToCartResult(cartItems, item)
       IN  /\ cartItems' = r.cartItems
           /\ added' = r.added
           /\ marketAlert' = IF r.added THEN AddedAlert(item)
                             ELSE AlreadyInCartAlert(item)
    /\ shown' = shown + 1
    /\ UNCHANGED <<checkoutVars, listVars, popup>>

\* The alert's OK button: onPress: () => setAlertVisible(false)
pressMarketAlertButton ==
    /\ marketAlert.visible
    /\ marketAlert.buttons # <<>>
    /\ marketAlert' = [marketAlert EXCEPT !.visible = FALSE]
    /\ UNCHANGED <<cartItems, checkoutVars, added, shown, listVars, popup>>

\* onClose={() => setAlertVisible(false)}
closeMarketAlert ==
    /\ marketAlert.visible
    /\ marketAlert' = [marketAlert EXCEPT !.visible = FALSE]
    /\ UNCHANGED <<cartItems, checkoutVars, added, shown, listVars, popup>>

NextMarket ==
    \/ \E item \in Items : handleAddToCart(item)
    \/ pressMarketAlertButton
    \/ closeMarketAlert

SpecMarket == Init /\ [][NextMarket]_vars


\* --------------------------------------------------------------- CartStore
\* The cart on its own: items are added, rendered lines are removed, the
\* cart is cleared.
clearCartCalled ==
    /\ cartItems' = clearCart
    /\ UNCHANGED <<checkoutVars, marketVars>>

NextCart ==
    \/ \E p \in Items : addToCart(p)
    \/ \E p \in Items : removeFromCart(p)
    \/ Render
    \/ clearCartCalled

SpecCart == Init /\ [][NextCart]_vars


\* ------------------------------------------------------- repeated checkout
\* The checkout with a user who never presses a trash button: an item leaves
\* the cart only when clearCart runs.
NextNoRemove ==
    \/ \E p \in Products : addToCart(p)
    \/ Render
    \/ handleCheckout
    \/ \E a \in Attempts : \E r \in IntentOutcomes(a) : fetchPaymentIntentResolved(a, r)
    \/ \E a \in Attempts : \E r \in SdkOutcomes : initPaymentSheetResolved(a, r)
    \/ \E a \in Attempts : \E r \in SdkOutcomes : presentPaymentSheetResolved(a, r)
    \/ \E a \in Attempts : \E r \in OrderOutcomes : createOrderResolved(a, r)
    \/ pressAlertButton
    \/ closeAlert

SpecNoRemove == Init /\ [][NextNoRemove]_vars


\* -------------------------------------------------- adding during checkout
\* The checkout with a user who puts the products of the first kind in the
\* cart before the first checkout, and other items of the market only once
\* a checkout has been started (the cart is shared with MarketPage).
NextLateAdd ==
    \/ \E p \in Products : started = 0 /\ addToCart(p)
    \/ \E p \in Items \ Products : started > 0 /\ addToCart(p)
    \/ Render
    \/ handleCheckout
    \/ \E a \in Attempts : \E r \in IntentOutcomes(a) : fetchPaymentIntentResolved(a, r)
    \/ \E a \in Attempts : \E r \in SdkOutcomes : initPaymentSheetResolved(a, r)
    \/ \E a \in Attempts : \E r \in SdkOutcomes : presentPaymentSheetResolved(a, r)
    \/ \E a \in Attempts : \E r \in OrderOutcomes : createOrderResolved(a, r)
    \/ pressAlertButton
    \/ closeAlert

SpecLateAdd == Init /\ [][NextLateAdd]_vars


\* ---------------------------------------------- MarketPage: sort and search
\* response.data.data: the products as fetched, item 2 first and item 1 last.
Catalogue == [i \in 1..MaxItems |-> (i % MaxItems) + 1]

\* Sort keys.  Names run against the ids (item 1 has the last name), prices
\* with them (Price).
NameKey == [i \in Items |-> MaxItems - i]
PriceKey == [i \in Items |-> parseFloat(Price(i))]
Descending(key) == [i \in Items |-> 0 - key[i]]

SortOptions == { "Default", "Name (A-Z)", "Price (High to Low)" }

\* The texts typed in the search box: nothing, or a text found in the
\* subject or name of the items with an odd id.
Texts == { "", "MATH" }
Matches(item, text) == text = "" \/ item % 2 = 1

\* Array.prototype.sort with a comparator on distinct keys.
RECURSIVE SortedBy(_, _)
SortedBy(data, key) ==
    IF data = <<>> THEN <<>>
    ELSE LET rest == SortedBy(Tail(data), key)
             x == Head(data)
         IN  SelectSeq(rest, LAMBDA y : key[y] < key[x]) \o <<x>>
                 \o SelectSeq(rest, LAMBDA y : key[y] >= key[x])

\* sortData(dataToSort, option): a sorted copy; any other option, 'Default'
\* included, returns the copy as it is
sortData(dataToSort, option) ==
    IF option = "Name (A-Z)" THEN SortedBy(dataToSort, NameKey)
    ELSE IF option = "Price (High to Low)"
    THEN SortedBy(dataToSort, Descending(PriceKey))
    ELSE dataToSort

\* products.filter(...) of filterData
Filter(data, text) == SelectSeq(data, LAMBDA item : Matches(item, text))

\* await fetchProducts() answers success: setProducts, setFilteredData; the
\* effect on [products] then cancels the debounced filter its closure holds,
\* the one of the mount render, and sets the sorted list again.  The new
\* products give debouncedFilter a new instance.
fetchAllProductsSucceeded ==
    /\ products = <<>>
    /\ products' = Catalogue
    /\ filteredData' = sortData(Catalogue, sortOption)
    /\ pending' = { [t EXCEPT !.current = FALSE] : t \in { u \in pending : ~u.first } }
    /\ firstInstance' = FALSE
    /\ UNCHANGED <<cartItems, checkoutVars, marketAlert, added, shown, popup,
                   searchQuery, sortOption>>

\* handleSearch(text): the debounced filter of this render (re)starts its
\* timer with the text
handleSearch(text) ==
    /\ searchQuery' = text
    /\ pending' = { t \in pending : ~t.current }
                    \cup { [text |-> text, products |-> products,
                            sortOption |-> sortOption, current |-> TRUE,
                            first |-> firstInstance] }
    /\ UNCHANGED <<cartItems, checkoutVars, marketAlert, added, shown, popup,
                   products, filteredData, sortOption, firstInstance>>

\* 300 ms later: filterData(text) runs with the products and sortOption of
\* the render that created its debounced instance
debouncedFilterFires(t) ==
    /\ t \in pending
    /\ filteredData' = sortData(Filter(t.products, t.text), t.sortOption)
    /\ pending' = pending \ {t}
    /\ UNCHANGED <<cartItems, checkoutVars, marketAlert, added, shown, popup,
                   products, searchQuery, sortOption, firstInstance>>

\* handleSortOption(option); a changed sortOption gives debouncedFilter a
\* new instance (useCallback deps), and the old one keeps its timer
handleSortOption(option) ==
    /\ sortOption' = option
    /\ filteredData' = sortData(filteredData, option)
    /\ IF option # sortOption
       THEN /\ pending' = { [t EXCEPT !.current = FALSE] : t \in pending }
            /\ firstInstance' = FALSE
       ELSE UNCHANGED <<pending, firstInstance>>
    /\ UNCHANGED <<cartItems, checkoutVars, marketAlert, added, shown, popup,
                   products, searchQuery>>

Timers ==
    [text : Texts, products : {<<>>, Catalogue}, sortOption : SortOptions,
     current : BOOLEAN, first : BOOLEAN]

NextList ==
    \/ fetchAllProductsSucceeded
    \/ \E text \in Texts : handleSearch(text)
    \/ \E t \in Timers : debouncedFilterFires(t)
    \/ \E option \in SortOptions : handleSortOption(option)

SpecList == Init /\ [][NextList]_vars


\* ------------------------------------------------------------- ReviewPopup
\* api.getProductReviewsAPI(productId): a response with the product's
\* reviews, a response without data (with or without a message), or a
\* thrown error.
ReviewsOf(p) == <<[product |-> p, comment |-> "a review"]>>

ReviewOutcomes(p) ==
    { [thrown |-> FALSE, data |-> ReviewsOf(p), message |-> ""],
      [thrown |-> FALSE, data |-> Null, message |-> ""],
      [thrown |-> FALSE, data |-> Null, message |-> "server: no reviews"],
      [thrown |-> TRUE, data |-> Null, message |-> "Network Error"] }

\* The popup is given another product: the effect on [productId] calls
\* fetchReviews, which runs to its await.
productIdChanges(p) ==
    /\ p # popup.productId
    /\ popup' = [popup EXCEPT !.productId = p, !.loading = TRUE,
                              !.fetching = @ \cup {p}]
    /\ UNCHANGED <<cartItems, checkoutVars, marketAlert, added, shown, listVars>>

\* await api.getProductReviewsAPI(productId) resolves in fetchReviews
getProductReviewsResolved(p, r) ==
    /\ p \in popup.fetching
    /\ IF ~r.thrown /\ r.data # Null
       THEN popup' = [popup EXCEPT !.reviews = r.data, !.loading = FALSE,
                                   !.fetching = @ \ {p}, !.last = "ok"]
       ELSE popup' = [popup EXCEPT
                         !.error = IF r.message # "" THEN r.message
                                   ELSE IF r.thrown
                                   THEN "An error occurred while fetching reviews."
                                   ELSE "Failed to fetch reviews.",
                         !.loading = FALSE,
                         !.fetching = @ \ {p}, !.last = "failed"]
    /\ UNCHANGED <<cartItems, checkoutVars, marketAlert, added, shown, listVars>>

NextReviews ==
    \/ \E p \in Items : productIdChanges(p)
    \/ \E p \in Items : \E r \in ReviewOutcomes(p) : getProductReviewsResolved(p, r)

SpecReviews == Init /\ [][NextReviews]_vars

\* ===================================================================== claims
InFlight(a) ==
    att[a].pc \in {"RequestingIntent", "InitializingProcessor",
                   "PresentingProcessor", "PersistingOrder"}

Running == {a \in Attempts : InFlight(a)}

\* Invocation a returns in this step, having reached a terminal state.
Ends(a) == att[a].pc \notin {"Returned", "Rejected"} /\ att'[a].pc = "Returned"

\* C1: at most one checkout attempt is in flight at any time, so the intent
\* provider, the processor and createOrder are never being used by two
\* attempts at once.
C1_AtMostOneInFlight == Cardinality(Running) <= 1

\* C2: a draft with isPaid = true and paidAt set has been handed to
\* createOrder only by an attempt in which initPaymentSheet was called with
\* a non-null client secret and returned no error, and presentPaymentSheet
\* was then called and returned no error.
C2_PaidOnlyAfterConfirmation ==
    \A a \in Attempts : \A i \in 1..Len(att[a].submitted) :
        (att[a].submitted[i].isPaid /\ att[a].submitted[i].paidAt # "")
            => /\ att[a].clientSecret # Null
               /\ att[a].initCalls = <<att[a].clientSecret>>
               /\ att[a].initOk
               /\ att[a].presentCalls = 1
               /\ att[a].presentOk

C2_Witness ==
    \E a \in Attempts :
        /\ att[a].pc = "PersistingOrder"
        /\ Len(att[a].submitted) = 1
        /\ att[a].submitted[1].isPaid
        /\ att[a].submitted[1].paidAt # ""

\* C3: the button that clears the cart exists, and the cart has been cleared
\* by checkout, only when the backend has created an order.
C3_ClearOnlyAfterOrder ==
    /\ alert.onPress = "clearCartAndNavigate" => orders > 0
    /\ navLog # {} => orders > 0

C3_Witness == navLog # {} /\ cartItems = <<>> /\ orders > 0

\* C4: dismissing the success notification, by its OK button or by the
\* alert's close handler, leaves the cart empty.
C4_DismissedSuccessLeavesCartEmpty ==
    [][(alert.visible /\ alert.title = "Order Placed" /\ ~alert'.visible)
          => cartItems' = <<>>]_vars

\* C5: an attempt that reaches Succeeded has called createOrder exactly
\* once, the backend has created one order for it, and the draft has
\* isPaid = true, paymentMethod 'Card', one order item of quantity 1 per item
\* of the snapshot and a paymentResult holding the attempt's client secret.
C5_SuccessDraft ==
    [][\A a \in Attempts :
          (Ends(a) /\ outcome' = Succeeded)
              => /\ Len(att[a].submitted) = 1
                 /\ orders' = orders + 1
                 /\ LET draft == att[a].submitted[1]
                    IN  /\ draft.isPaid
                        /\ draft.paymentMethod = "Card"
                        /\ Len(draft.orderItems) = Len(att[a].cartItems)
                        /\ \A i \in 1..Len(draft.orderItems) :
                              /\ draft.orderItems[i].quantity = 1
                              /\ draft.orderItems[i].product = att[a].cartItems[i]
                        /\ draft.paymentResult.clientSecret # Null
                        /\ draft.paymentResult.clientSecret = att[a].clientSecret
      ]_vars

C5_Witness ==
    \E a \in Attempts :
        /\ att[a].pc = "Returned" /\ outcome = Succeeded
        /\ orders = 1 /\ alert.title = "Order Placed"

\* C6: when createOrder resolves without the backend having created an order
\* (it threw, or answered success false, or answered without data), the
\* attempt ends in Failed(OrderPersistError), the 'Checkout Failed'
\* notification with a message and a plain OK button is visible, and the
\* cart is as it was.
C6_OrderPersistError ==
    [][\A a \in Attempts :
          (att[a].pc = "PersistingOrder" /\ Ends(a) /\ orders' = orders)
              => /\ outcome' = Failed("OrderPersistError")
                 /\ alert'.visible
                 /\ alert'.title = "Checkout Failed"
                 /\ alert'.message # ""
                 /\ alert'.onPress = "dismiss"
                 /\ cartItems' = cartItems
                 /\ navLog' = navLog
      ]_vars

C6_Witness ==
    \E a \in Attempts :
        /\ att[a].pc = "Returned" /\ outcome = Failed("OrderPersistError")
        /\ orders = 0
        /\ alert.visible /\ alert.title = "Checkout Failed"
        /\ cartItems # <<>>

\* C7: whenever no attempt is running, the in-progress flag is false.
C7_IdleMeansNotLoading == (Running = {}) => (loading = FALSE)

\* C8: the step in which an attempt ends in Failed leaves a notification
\* with a message visible.
C8_EveryFailureNotified ==
    [][\A a \in Attempts :
          (Ends(a) /\ outcome'.state = "Failed")
              => alert'.visible /\ alert'.message # ""
      ]_vars

\* C9: handleCheckout invoked on a snapshot with zero items ends at once in
\* Failed(EmptyCart) with the 'Cart Empty' notification: it has made no call
\* to the intent provider, the SDK or createOrder, and no order is created.
C9_EmptyCart ==
    [][\A a \in Attempts :
          (att[a].pc = "Idle" /\ att'[a].pc # "Idle" /\ view.cartItems = <<>>)
              => /\ att'[a] = Returned
                 /\ outcome' = Failed("EmptyCart")
                 /\ att'[a].intentCalls = <<>>
                 /\ att'[a].initCalls = <<>>
                 /\ att'[a].presentCalls = 0
                 /\ att'[a].submitted = <<>>
                 /\ orders' = orders
                 /\ alert' = CartEmptyAlert
      ]_vars

C9_Witness ==
    \E a \in Attempts :
        /\ att[a].pc = "Returned" /\ outcome = Failed("EmptyCart")
        /\ alert.title = "Cart Empty" /\ orders = 0

\* C10: when the intent request resolves with no client secret, the attempt
\* ends in Failed(IntentUnavailable); its snapshot was non-empty, neither the
\* step that issued the request nor the step that ends the attempt changes
\* the cart, and the attempt has called neither initPaymentSheet,
\* presentPaymentSheet nor createOrder.
C10_IntentUnavailable ==
    [][\A a \in Attempts :
        /\ (att[a].pc = "Idle" /\ att'[a].pc = "RequestingIntent")
              => cartItems' = cartItems /\ att'[a].cartItems # <<>>
        /\
          (/\ att[a].pc = "RequestingIntent"
           /\ att'[a].pc \notin {"RequestingIntent", "Rejected"}
           /\ att'[a].clientSecret = Null)
              => /\ att'[a] = Returned
                 /\ outcome' = Failed("IntentUnavailable")
                 /\ att[a].cartItems # <<>>
                 /\ cartItems' = cartItems
                 /\ att[a].initCalls = <<>> /\ att'[a].initCalls = <<>>
                 /\ att[a].presentCalls = 0 /\ att'[a].presentCalls = 0
                 /\ att[a].submitted = <<>> /\ att'[a].submitted = <<>>
                 /\ orders' = orders
      ]_vars

C10_Witness ==
    \E a \in Attempts :
        /\ att[a].pc = "Returned" /\ outcome = Failed("IntentUnavailable")
        /\ cartItems # <<>>

\* C11: when initPaymentSheet resolves, the attempt goes on to
\* presentPaymentSheet only if the SDK returned no error; otherwise it ends
\* in Failed(ProcessorInitError) with the 'Payment Failed' notification
\* carrying the SDK's message, its snapshot was non-empty, the step leaves
\* the cart alone, and the attempt has called neither presentPaymentSheet nor
\* createOrder.
C11_ProcessorInitError ==
    [][\A a \in Attempts :
          att[a].pc = "InitializingProcessor"
              => /\ att'[a].pc = "PresentingProcessor" => att'[a].initOk
                 /\ att'[a].pc = "Returned"
                       => /\ outcome' = Failed("ProcessorInitError")
                          /\ alert'.visible
                          /\ alert'.title = "Payment Failed"
                          /\ \E e \in SdkErrors : alert'.message = e.message
                          /\ att[a].cartItems # <<>>
                          /\ cartItems' = cartItems
                          /\ att[a].presentCalls = 0
                          /\ att[a].submitted = <<>>
                          /\ orders' = orders
                          /\ navLog' = navLog
      ]_vars

C11_Witness ==
    \E a \in Attempts :
        /\ att[a].pc = "Returned" /\ outcome = Failed("ProcessorInitError")
        /\ alert.visible /\ alert.title = "Payment Failed"
        /\ cartItems # <<>> /\ orders = 0

\* C12: when presentPaymentSheet resolves, the attempt goes on to createOrder
\* only if the SDK returned no error; any returned error, a cancellation like
\* any other, ends it in Failed(ProcessorPresentError) with one and the same
\* notification title and icon and the SDK's message, nothing has been handed
\* to createOrder, and the cart is left as it was.
C12_ProcessorPresentError ==
    [][\A a \in Attempts :
          att[a].pc = "PresentingProcessor"
              => /\ att'[a].pc = "PersistingOrder" => att'[a].presentOk
                 /\ att'[a].pc = "Returned"
                       => /\ outcome' = Failed("ProcessorPresentError")
                          /\ alert'.visible
                          /\ alert'.title = "Payment Failed"
                          /\ alert'.icon = "cart-outline"
                          /\ alert'.onPress = "dismiss"
                          /\ \E e \in SdkErrors : alert'.message = e.message
                          /\ att[a].submitted = <<>>
                          /\ orders' = orders
                          /\ cartItems' = cartItems
                          /\ navLog' = navLog
      ]_vars

\* a cancelled payment sheet
C12_Witness ==
    \E a \in Attempts, e \in SdkErrors :
        /\ e.code = "Canceled"
        /\ att[a].pc = "Returned" /\ outcome = Failed("ProcessorPresentError")
        /\ alert.visible /\ alert.message = e.message
        /\ cartItems # <<>> /\ orders = 0

\* C13: the step in which an attempt reaches Succeeded has cleared the cart
\* and navigated to the purchase history by the time the 'Order Placed'
\* notification is visible: the notification is not shown over a cart that
\* still holds the purchased items.
C13_ClearNavigateThenNotify ==
    [][\A a \in Attempts :
          (Ends(a) /\ outcome' = Succeeded)
              => /\ alert'.visible /\ alert'.title = "Order Placed"
                 /\ cartItems' = <<>>
                 /\ "PurchaseHistory" \in navLog'
      ]_vars

\* The external calls invocation a has issued so far, per collaborator.
Issued(a) ==
    <<Len(att[a].intentCalls), Len(att[a].initCalls), att[a].presentCalls,
      Len(att[a].submitted)>>

\* C14: an attempt waiting at a step has issued exactly one call for that
\* step and for each step before it and none for a later step, and it holds
\* the result of every earlier step: a validated (non-empty) snapshot before
\* the intent request, the client secret before initPaymentSheet, the SDK's
\* "no error" before presentPaymentSheet and before createOrder.  So the
\* call it waits for is its only outstanding one.
C14_StepsInOrder ==
    \A a \in Attempts :
        /\ att[a].pc = "Idle" => Issued(a) = <<0, 0, 0, 0>>
        /\ att[a].pc = "RequestingIntent"
              => /\ Issued(a) = <<1, 0, 0, 0>>
                 /\ att[a].cartItems # <<>>
                 /\ att[a].clientSecret = Null
        /\ att[a].pc = "InitializingProcessor"
              => /\ Issued(a) = <<1, 1, 0, 0>>
                 /\ att[a].cartItems # <<>>
                 /\ att[a].clientSecret # Null
                 /\ ~att[a].initOk
        /\ att[a].pc = "PresentingProcessor"
              => /\ Issued(a) = <<1, 1, 1, 0>>
                 /\ att[a].clientSecret # Null
                 /\ att[a].initOk /\ ~att[a].presentOk
        /\ att[a].pc = "PersistingOrder"
              => /\ Issued(a) = <<1, 1, 1, 1>>
                 /\ att[a].clientSecret # Null
                 /\ att[a].initOk /\ att[a].presentOk

C14_Witness ==
    \E a \in Attempts :
        att[a].pc = "PersistingOrder" /\ Issued(a) = <<1, 1, 1, 1>>

Terminated(a) == att[a].pc \in {"Returned", "Rejected"}

\* C15: in every step, an invocation that has ended stays as it ended and
\* issues nothing more; a running one never issues a second call to a
\* collaborator it has already called; it issues its next call only if the
\* call that has just resolved succeeded (a secret, no init error, no
\* presentation error), and once createOrder has resolved, whatever the
\* answer, it ends without another call.
C15_NoRetryNoCompensation ==
    [][\A a \in Attempts :
          IF Terminated(a) THEN att'[a] = att[a]
          ELSE IF att'[a] = att[a] THEN TRUE
          ELSE IF att'[a].pc \in {"Returned", "Rejected"}
          THEN att'[a] \in {Returned, Rejected}
          ELSE /\ att[a].pc # "PersistingOrder"
               /\ Len(att'[a].intentCalls) = 1
               /\ Len(att'[a].initCalls) <= 1
               /\ att'[a].presentCalls <= 1
               /\ Len(att'[a].submitted) <= 1
               /\ Len(att[a].intentCalls) <= Len(att'[a].intentCalls)
               /\ Len(att[a].initCalls) <= Len(att'[a].initCalls)
               /\ att[a].presentCalls <= att'[a].presentCalls
               /\ Len(att[a].submitted) <= Len(att'[a].submitted)
               /\ att[a].pc = "RequestingIntent" => att'[a].clientSecret # Null
               /\ att[a].pc = "InitializingProcessor" => att'[a].initOk
               /\ att[a].pc = "PresentingProcessor" => att'[a].presentOk
      ]_vars

\* createOrder has failed after the payment was captured, and nothing
\* followed
C15_Witness ==
    \E a \in Attempts :
        /\ Terminated(a) /\ started = a
        /\ outcome = Failed("OrderPersistError")
        /\ orders = 0 /\ ~loading

\* C16: an attempt past validation has requested one payment intent of its
\* own, and every client secret it has passed to initPaymentSheet or put in
\* a draft's paymentResult is the secret the intent provider issued for that
\* attempt's request, not one issued to another attempt.
C16_OwnFreshSecret ==
    \A a \in Attempts :
        /\ InFlight(a) => Len(att[a].intentCalls) = 1
        /\ att[a].clientSecret \in {Null, Secret(a)}
        /\ \A i \in 1..Len(att[a].initCalls) : att[a].initCalls[i] = Secret(a)
        /\ \A i \in 1..Len(att[a].submitted) :
              att[a].submitted[i].paymentResult.clientSecret = Secret(a)

\* a second attempt hands its draft to createOrder
C16_Witness ==
    \E a \in Attempts :
        /\ a > 1
        /\ att[a].pc = "PersistingOrder"
        /\ att[a].initCalls = <<Secret(a)>>
        /\ att[a].submitted[1].paymentResult.clientSecret = Secret(a)

\* The external call invocation a is waiting for resolves: it returns a
\* value or throws.
Resolves(a) ==
    \/ \E r \in IntentOutcomes(a) : fetchPaymentIntentResolved(a, r)
    \/ \E r \in SdkOutcomes : initPaymentSheetResolved(a, r)
    \/ \E r \in SdkOutcomes : presentPaymentSheetResolved(a, r)
    \/ \E r \in OrderOutcomes : createOrderResolved(a, r)

\* Every pending external call eventually resolves.
FairSpec == Spec /\ \A a \in Attempts : WF_vars(Resolves(a))

\* C17: if every pending external call eventually resolves, every attempt
\* that is waiting for one eventually returns with a terminal outcome
\* (Succeeded or Failed), and whenever the in-progress flag is true it
\* eventually becomes false again.
C17_RunsToOutcome ==
    /\ \A a \in Attempts : InFlight(a) ~> (att[a].pc = "Returned")
    /\ loading ~> ~loading

\* C18: an alert of the checkout has no button, a button that only dismisses
\* it, or the button that clears the cart and opens the purchase history;
\* the only view checkout navigates to is the purchase history, never the
\* login view; and a step navigates only as the OK button of a visible
\* 'Order Placed' alert, shown for an order the backend has created.
C18_NavigateOnlyOnSuccess ==
    [][/\ alert'.onPress \in {"none", "dismiss", "clearCartAndNavigate"}
       /\ navLog' \subseteq {"PurchaseHistory"}
       /\ "Login" \notin navLog'
       /\ navLog' # navLog
             => /\ alert.visible /\ alert.title = "Order Placed"
                /\ alert.onPress = "clearCartAndNavigate"
                /\ orders > 0
                /\ ~alert'.visible
      ]_vars

C18_Witness ==
    /\ navLog = {"PurchaseHistory"}
    /\ ~alert.visible /\ alert.title = "Order Placed"
    /\ orders > 0

\* C19: a step of handleAddToCart for an item whose id is in the cart (as it
\* is after any earlier add of it) leaves the cart as it was and add returns
\* false; for an id not in the cart it appends the item, the size grows by
\* one, and add returns true.  Either way the item is in the cart afterwards.
C19_AddInsertsOnce ==
    [][shown' # shown
          => LET item == marketAlert'.message[1]
             IN  /\ Contains(cartItems', item)
                 /\ IF Contains(cartItems, item)
                    THEN /\ ~added'
                         /\ Len(cartItems') = Len(cartItems)
                         /\ cartItems' = cartItems
                    ELSE /\ added'
                         /\ Len(cartItems') = Len(cartItems) + 1
                         /\ cartItems' = Append(cartItems, item)
      ]_vars

\* the same item added a second time
C19_Witness ==
    /\ shown = 2 /\ ~added
    /\ Len(cartItems) = 1
    /\ marketAlert.message[1] = cartItems[1]

\* C20: every step of handleAddToCart makes exactly one alert visible, with
\* an OK button only: titled 'Info' with the information icon when add
\* returned false, titled 'Success' with the cart icon when it returned
\* true; never an error alert.
C20_InfoNotError ==
    [][shown' # shown
          => /\ shown' = shown + 1
             /\ marketAlert'.visible
             /\ marketAlert'.buttons = <<"OK">>
             /\ marketAlert'.title # "Error"
             /\ IF added'
                THEN /\ marketAlert'.title = "Success"
                     /\ marketAlert'.icon = "cart"
                ELSE /\ marketAlert'.title = "Info"
                     /\ marketAlert'.icon = "information-circle"
      ]_vars

C20_Witness ==
    /\ marketAlert.visible /\ marketAlert.title = "Info"
    /\ marketAlert.icon = "information-circle"
    /\ ~added /\ shown > 0
    /\ Contains(cartItems, marketAlert.message[1])

\* C21: for the cart of every reachable state and every id, remove(id) has a
\* value (it raises nothing); for an id not in the cart that value is the
\* cart itself, same items in the same order; and removing the id from the
\* result once more changes nothing.
C21_RemoveAbsentIsNoOp ==
    \A id \in Items :
        /\ Without(cartItems, id) \in Seq(Items)
        /\ ~Contains(cartItems, id) => Without(cartItems, id) = cartItems
        /\ Without(Without(cartItems, id), id) = Without(cartItems, id)
        /\ ~Contains(Without(cartItems, id), id)

\* the line of an item already removed is still rendered, above a cart that
\* holds other items: its trash button removes an absent id
C21_Witness ==
    \E id \in Items :
        /\ Contains(view.cartItems, id) /\ ~Contains(cartItems, id)
        /\ Len(cartItems) >= 2

NoDuplicates(items) ==
    \A i, j \in 1..Len(items) : items[i] = items[j] => i = j

\* Where id x stands in a cart that holds it once.
Pos(items, x) == CHOOSE i \in 1..Len(items) : items[i] = x

\* C22: whatever add, remove or clear does, the cart afterwards holds no id
\* twice, the items that stay keep the order they had, and an item that was
\* not in the cart before stands after every item that was.
C22_UniqueInInsertionOrder ==
    [][/\ NoDuplicates(cartItems')
       /\ \A x, y \in Items :
             (/\ Contains(cartItems', x) /\ Contains(cartItems', y)
              /\ Pos(cartItems', x) < Pos(cartItems', y))
                 => /\ Contains(cartItems, y) => Contains(cartItems, x)
                    /\ Contains(cartItems, y) => Pos(cartItems, x) < Pos(cartItems, y)
      ]_vars

\* a full cart whose insertion order is not the order of the ids
C22_Witness ==
    /\ Len(cartItems) = MaxItems
    /\ \E i \in 1..(Len(cartItems) - 1) : cartItems[i] > cartItems[i + 1]

\* The ids a cart holds.
Ids(items) == { items[i] : i \in 1..Len(items) }

\* The exact decimal sum, in thousandths, of the prices of a set of
\* products: no order is involved.
RECURSIVE ExactSum(_)
ExactSum(S) ==
    IF S = {} THEN 0
    ELSE LET p == CHOOSE q \in S : TRUE
         IN  (1000 * p + (100 * p + 1)) + ExactSum(S \ {p})

\* An amount in thousandths rounded to the nearest cent.
RoundedToCents(m) == ((m + 5) \div 10) * 10

RECURSIVE SumOfPrices(_)
SumOfPrices(orderItems) ==
    IF orderItems = <<>> THEN 0
    ELSE parseFloat(Head(orderItems).price) + SumOfPrices(Tail(orderItems))

CheckoutStep ==
    \/ att' # att
    \/ started' # started
    \/ alert' # alert
    \/ loading' # loading
    \/ outcome' # outcome

\* C25: a step of the checkout leaves the cart as it is, except the OK
\* button of the visible 'Order Placed' alert, which empties it; in
\* particular the step in which an attempt ends in Failed, and the step
\* that dismisses a failure alert, leave the cart as it is.
C25_OnlyClearOnSuccess ==
    [][CheckoutStep
          => \/ cartItems' = cartItems
             \/ /\ cartItems' = <<>>
                /\ alert.visible /\ alert.title = "Order Placed"
                /\ ~alert'.visible
                /\ att' = att /\ outcome' = outcome
                /\ orders > 0
      ]_vars

\* a failed attempt's alert has been dismissed over a cart that still holds
\* its items
C25_Witness ==
    /\ outcome = Failed("ProcessorPresentError")
    /\ ~alert.visible /\ alert.title = "Payment Failed"
    /\ \E a \in Attempts : started = a /\ Terminated(a)
    /\ cartItems # <<>>

\* C26: the step in which createOrder resolves with an order the backend
\* has created (success true, data present) ends the attempt in Succeeded
\* with the 'Order Placed' notification, never with 'Checkout Failed'.
C26_PersistedOrderSucceeds ==
    [][\A a \in Attempts :
          (att[a].pc = "PersistingOrder" /\ Ends(a) /\ orders' = orders + 1)
              => /\ outcome' = Succeeded
                 /\ alert'.visible
                 /\ alert'.title = "Order Placed"
                 /\ alert'.title # "Checkout Failed"
      ]_vars

\* C27: when no item is ever removed by the user, the cart only grows until
\* clearCart runs, so every order is for the items of the orders before it
\* unless the cart was cleared in between: the backend has created a second
\* order only if checkout has cleared the cart.
C27_NoItemPaidTwice == orders >= 2 => navLog # {}

\* C28: while only one checkout has been started, its order is for items
\* that were in the cart before it started; so when the OK button of its
\* 'Order Placed' alert clears the cart, the cart holds no item that was
\* added after the checkout started.
C28_ClearDiscardsOnlyOrdered ==
    [][(/\ started = 1
        /\ alert.visible /\ alert.onPress = "clearCartAndNavigate"
        /\ ~alert'.visible
        /\ cartItems' = <<>>)
          => Ids(cartItems) \subseteq Products
      ]_vars

\* C29: once the products are fetched, whenever no debounced search is
\* pending the displayed list is the products matching the search text,
\* sorted by the selected option, and in fetched order under 'Default'.
C29_ListMatchesSortAndSearch ==
    (products # <<>> /\ pending = {})
        => filteredData =
              (IF sortOption = "Default" THEN Filter(products, searchQuery)
               ELSE sortData(Filter(products, searchQuery), sortOption))

\* C30: when the fetch that completed last succeeded and no fetch is
\* running, the popup holds no error and is not loading, so it shows the
\* reviews.
C30_SuccessClearsError ==
    (popup.last = "ok" /\ popup.fetching = {})
        => (popup.error = "" /\ ~popup.loading)
=============================================================================
